---- MODULE Spec2Model ----
(***************************************************************************)
(* ProntoPDF (src/index.tsx): the e-book generation pipeline.              *)
(*                                                                         *)
(* The file holds two revisions of the application:                        *)
(*   - the gated revision (lines 1..861): generateMaterial processes the   *)
(*     chapters one at a time, every backend call wrapped in callWithRetry,*)
(*     with an image request per chapter, a payment gate and a persisted   *)
(*     backup record;                                                      *)
(*   - the ungated revision (lines 862..1612): generateMaterial processes  *)
(*     the chapters in batches of three concurrent requests, without the   *)
(*     retry wrapper, images, payment or persistence.                      *)
(* The variable `variant` says which revision a behaviour is of.           *)
(***************************************************************************)
EXTENDS Integers, Sequences, FiniteSets, TLC

VARIABLES
  \* ---- callWithRetry (one activation) ----
  rwPc,        \* "idle" | "awaiting" (fn() outstanding) | "sleeping" | "returned" | "threw"
  rwOp,        \* operationName
  rwRetries,   \* retries
  rwBase,      \* baseDelay
  rwI,         \* the loop variable i
  rwOut,       \* what the activation returned or threw
  rwEvents,    \* history of this activation: invocations of fn, onProgress calls, timers
  \* ---- generateMaterial (one activation) ----
  variant,     \* "seq" (gated revision) | "batch" (ungated revision)
  gpc,         \* position of generateMaterial
  outline,     \* the parsed outline
  gi,          \* the chapter loop variable i
  textResult,  \* the chapter's text response (sequential variant)
  chapters,    \* the chapters array
  batch,       \* the promises of the current batch (batched variant)
  ret,         \* what generateMaterial resolved or rejected with
  textLog,     \* history: chapter number -> its text request: pending, fulfilled, rejected
  chLog,       \* history of the chapter the sequential loop worked on last: its number,
               \* its text response and how its image request ended
  \* ---- App ----
  view, answers, content, loadingMessage, storage,
  alerts,      \* history: the alert() dialogs shown
  others,      \* generateMaterial activations in flight besides the one above
  runs,        \* history: handleWizardComplete calls so far
  tracked,     \* whether the first generateMaterial activation is followed step by
               \* step (otherwise every activation is counted in `others`)
  \* ---- App, gated revision: payment ----
  isPaid, showPayment, verifyingPayment,
  url,         \* the session_id parameter of window.location
  loading,     \* PaymentModal's state
  payPc,       \* handleCheckout: "idle" | "creating" (createSimulatedSession outstanding)
  verPc,       \* the mount effect: "idle" | "verifying" (verifySimulatedPayment outstanding)
  produced,    \* history: the session ids createSimulatedSession has made
  downloads,   \* history: the handleDownload calls, and whether each ran createPDF
  mounts,      \* history: page loads so far
  \* ---- StepWizard ----
  wizStep,     \* step; 0 while no StepWizard is mounted
  wizAnswers,  \* answers
  wizTimers,   \* the pending 400 ms timers of updateAnswer, oldest first, each with
               \* the step, answers, key and value its callback closes over and
               \* whether its StepWizard is still mounted
  \* ---- createPDF (one call) ----
  data,        \* the ContentData argument
  primaryColor,\* what hexToRgb(data.colorTheme) returned
  pdfPc,       \* "idle" | "chapters" (in the chapter forEach) | "saved" | "threw"
  pdfI,        \* chapters rendered so far
  doc          \* the document's pages in the order of addPage

rwVars  == <<rwPc, rwOp, rwRetries, rwBase, rwI, rwOut, rwEvents>>
genVars == <<variant, gpc, outline, gi, textResult,
             chapters, batch, ret, textLog, chLog>>
appVars == <<view, answers, content, loadingMessage, storage, alerts, others, runs>>
payVars == <<isPaid, showPayment, verifyingPayment, url, loading, payPc, verPc,
             produced, downloads, mounts>>
wizVars == <<wizStep, wizAnswers, wizTimers>>
pdfVars == <<data, primaryColor, pdfPc, pdfI, doc>>
sideVars == <<tracked, pdfVars>>
extVars == <<sideVars, payVars, wizVars>>
vars    == <<rwVars, genVars, appVars, extVars>>

-----------------------------------------------------------------------------
(* Bounds of the model *)

MaxRetries == 3      \* retries drawn from 1..MaxRetries in the wrapper's own specification
MaxSeqTitles == 2    \* longest chapterTitles list answered in the sequential variant
MaxBatchTitles == 4  \* longest chapterTitles list answered in the batched variant
MaxRuns == 2         \* handleWizardComplete calls in one behaviour
MaxLoads == 3        \* page loads in one behaviour
MaxDownloads == 2    \* handleDownload calls in one behaviour
MaxTimers == 2       \* pending updateAnswer timers
MaxHexLen == 7       \* longest colorTheme string
MaxPdfChapters == 2  \* longest chapters list createPDF is called with

(* Program constants *)

DefaultRetries == 3
DefaultBaseDelay == 4000
ImageRetries_AsText == DefaultRetries   \* mutant: images are retried like texts
ImageRetries == 1
batchSize == 3

-----------------------------------------------------------------------------
(* Values *)

None == [tag |-> "none"]            \* null / undefined / nothing yet

\* An operation name such as `Texto Cap ${i+1}`: its words and its number.
OpName(name, n) == [name |-> name, n |-> n]
NoOp == OpName("", 0)

\* Errors: the fields callWithRetry reads (status, code, message); `op` is the
\* operation the message names (NoOp when it names none).
BackendError(status, code, message) ==
  [kind |-> "backend", status |-> status, code |-> code, message |-> message, op |-> NoOp]

RateLimitErrors ==
  { BackendError(429, 0, "Too Many Requests"),
    BackendError(0, 429, ""),
    BackendError(0, 0, "Quota exceeded"),
    BackendError(0, 0, "HTTP 429") }

OtherErrors ==
  { BackendError(403, 403, "API key not valid"),
    BackendError(500, 0, "") }

Errors == RateLimitErrors \cup OtherErrors

\* /quota|limit|429/i.test(message), over the messages above
MatchesRateLimitPattern(message) ==
  message \in {"Quota exceeded", "HTTP 429"}

TerminalError(operationName) ==
  [kind |-> "terminal", status |-> 0, code |-> 0,
   message |-> "Falha na operação após tentativas.", op |-> operationName]

\* A settled promise: fulfilled with a value or rejected with an error.
Fulfilled(value) == [ok |-> TRUE, val |-> value]
Rejected(error)  == [ok |-> FALSE, err |-> error]

\* Progress messages (the argument of onProgress): which message, the operation
\* or chapter title it names, and the number it carries.
Msg(m, op, n) == [m |-> m, op |-> op, n |-> n]

\* History events of one callWithRetry activation.
Ev(ev, op, n) == [ev |-> ev, op |-> op, n |-> n]

-----------------------------------------------------------------------------
(* callWithRetry *)

\* mutant: every failure counts as a rate limit
IsRateLimit_Always(error) == TRUE

IsRateLimit(error) ==
  \/ error.status = 429
  \/ error.code = 429
  \/ (error.message # "" /\ MatchesRateLimitPattern(error.message))

\* mutant: the exponent off by one
WaitTime_OffByOne(baseDelay, i) == baseDelay * 2^(i + 1)

WaitTime(baseDelay, i) == baseDelay * 2^i

\* mutant: every error is retried
Retryable_AnyError(error, i, retries) == i < retries - 1

\* mutant: the last attempt backs off too
Retryable_NoAttemptBound(error, i, retries) == IsRateLimit(error)

\* whether a failed attempt i is retried
Retryable(error, i, retries) == IsRateLimit(error) /\ i < retries - 1

\* The head of the for loop at index i: fn() is invoked, or the loop is left and
\* the terminal error thrown.
RwLoop(operationName, retries, i, events) ==
  /\ rwI' = i
  /\ IF i < retries
       THEN /\ rwPc' = "awaiting"
            /\ rwEvents' = Append(events, Ev("invoke", operationName, i))
            /\ rwOut' = None
       ELSE /\ rwPc' = "threw"
            /\ rwEvents' = events
            /\ rwOut' = Rejected(TerminalError(operationName))

\* callWithRetry(operationName, fn, retries, baseDelay) up to its first await
RwStart(operationName, retries, baseDelay) ==
  /\ rwOp' = operationName
  /\ rwRetries' = retries
  /\ rwBase' = baseDelay
  /\ RwLoop(operationName, retries, 0, <<>>)

\* the activation is over and its caller has taken the outcome
RwRelease ==
  /\ rwPc' = "idle"
  /\ rwOp' = NoOp
  /\ rwRetries' = DefaultRetries
  /\ rwBase' = DefaultBaseDelay
  /\ rwI' = 0
  /\ rwOut' = None
  /\ rwEvents' = <<>>


-----------------------------------------------------------------------------
(* The backend's answers *)

\* The text of a response: absent, not JSON, or the JSON text of a value.
NoText == [t |-> "absent"]
Malformed == [t |-> "malformed"]
JsonText(v) == [t |-> "json", v |-> v]

Truthy(text) == text.t # "absent"

\* JSON.parse: the value, or a SyntaxError
SyntaxError == [kind |-> "SyntaxError", status |-> 0, code |-> 0,
                message |-> "Unexpected token", op |-> NoOp]
TypeError == [kind |-> "TypeError", status |-> 0, code |-> 0,
              message |-> "Cannot read properties of undefined", op |-> NoOp]
JSONParse(text) ==
  IF text.t = "json" THEN Fulfilled(text.v) ELSE Rejected(SyntaxError)

Undefined == "undefined"            \* a string-valued field that is not there

AllTitles == <<"C", "A", "D", "B", "F", "E", "H", "G">>
MaxTitles == IF variant = "seq" THEN MaxSeqTitles ELSE MaxBatchTitles
TitleLists == { SubSeq(AllTitles, 1, n) : n \in 0..MaxTitles }

OutlineObject(titles) ==
  [title |-> "Guia", subtitle |-> "Passo a passo", author |-> "Ana Lima",
   summary |-> "Resumo.", colorTheme |-> "#1e293b", chapterTitles |-> titles]

\* an object of the declared shape without the chapter list
OutlineWithoutTitles ==
  [title |-> "Guia", subtitle |-> "Passo a passo", author |-> "Ana Lima",
   summary |-> "Resumo.", colorTheme |-> "#1e293b"]

OutlineResponses ==
  { [text |-> JsonText(OutlineObject(titles))] : titles \in TitleLists }
  \cup { [text |-> JsonText(OutlineWithoutTitles)], [text |-> Malformed], [text |-> NoText] }

GeneratedText == "Lorem ipsum dolor sit amet."

TextResponses ==
  { [text |-> JsonText([content |-> GeneratedText])],
    [text |-> JsonText([body |-> GeneratedText])],
    [text |-> Malformed],
    [text |-> NoText] }

InlinePart == [inlineData |-> [mimeType |-> "image/png", data |-> "iVBORw0KGgo"]]
TextPart == [text |-> "Here is the illustration"]

\* The response as candidates?.[0]?.content?.parts reads it: the parts, or a
\* response in which a link of the chain is missing.
ImageResponses ==
  { [parts |-> <<TextPart, InlinePart>>], [parts |-> <<TextPart>>],
    [finishReason |-> "SAFETY"] }

GenericResults == { [value |-> "result"] }

\* What the outstanding fn() of callWithRetry can settle with: it is the request
\* generateMaterial wrapped, or any operation when the wrapper runs on its own.
Responses ==
  CASE gpc = "outline" -> OutlineResponses
    [] gpc = "text"    -> TextResponses
    [] gpc = "image"   -> ImageResponses
    [] OTHER           -> GenericResults

\* the errors the requests of generateMaterial are rejected with: one of each class
RequestErrors == { BackendError(429, 0, "Too Many Requests"), BackendError(403, 403, "API key not valid") }

Failings == IF gpc = "idle" THEN Errors ELSE RequestErrors

Outcomes == { Fulfilled(r) : r \in Responses } \cup { Rejected(e) : e \in Failings }

-----------------------------------------------------------------------------
(* callWithRetry: the steps after the first *)

BackoffMsg(operationName, waitTime) ==
  Msg("Alta demanda. Aguardando", operationName, waitTime \div 1000)

\* mutant: the wait is not announced
BackoffEvents_NoProgress(operationName, waitTime) ==
  << Ev("sleep", operationName, waitTime) >>

\* what the catch block does before `continue`: onProgress, then the timer
BackoffEvents(operationName, waitTime) ==
  << Ev("progress", operationName, waitTime \div 1000), Ev("sleep", operationName, waitTime) >>

\* fn() settles: return its result, or catch its error (lines 75-88)
RwSettle ==
  /\ rwPc = "awaiting"
  /\ \E outcome \in Outcomes :
       LET settled == Append(rwEvents, [ev |-> "settle", op |-> rwOp, n |-> rwI, out |-> outcome])
           waitTime == WaitTime(rwBase, rwI)
       IN  IF outcome.ok
             THEN /\ rwPc' = "returned"
                  /\ rwOut' = outcome
                  /\ rwEvents' = settled
                  /\ UNCHANGED loadingMessage
             ELSE IF Retryable(outcome.err, rwI, rwRetries)
               THEN /\ rwPc' = "sleeping"
                    /\ rwOut' = None
                    /\ rwEvents' = settled \o BackoffEvents(rwOp, waitTime)
                    /\ loadingMessage' = BackoffMsg(rwOp, waitTime)
               ELSE /\ rwPc' = "threw"
                    /\ rwOut' = Rejected(outcome.err)
                    /\ rwEvents' = settled
                    /\ UNCHANGED loadingMessage
  /\ UNCHANGED <<rwOp, rwRetries, rwBase, rwI>>
  /\ UNCHANGED genVars
  /\ UNCHANGED <<view, answers, content, storage, alerts, others, runs>>
  /\ UNCHANGED extVars

\* the backoff timer fires: continue with i+1 (lines 83-84, 73)
RwWake ==
  /\ rwPc = "sleeping"
  /\ RwLoop(rwOp, rwRetries, rwI + 1, rwEvents)
  /\ UNCHANGED <<rwOp, rwRetries, rwBase>>
  /\ UNCHANGED genVars
  /\ UNCHANGED appVars
  /\ UNCHANGED extVars


-----------------------------------------------------------------------------
(* Initial values *)

Answers1 == [what |-> "Vendo bolos caseiros", who |-> "Clientes", where |-> "WhatsApp",
             objective |-> "Vender", level |-> "Iniciante"]
Answers2 == [what |-> "Dou aulas de inglês", who |-> "Alunos", where |-> "E-book (PDF)",
             objective |-> "Ensinar", level |-> "Avançado"]
AnswerSets == {Answers1, Answers2}

EmptyBatch == [values |-> <<>>, pending |-> {}, titles |-> <<>>]

RwIdle ==
  /\ rwPc = "idle"
  /\ rwOp = NoOp
  /\ rwRetries = DefaultRetries
  /\ rwBase = DefaultBaseDelay
  /\ rwI = 0
  /\ rwOut = None
  /\ rwEvents = <<>>

GenIdle ==
  /\ gpc = "idle"
  /\ outline = None
  /\ gi = 0
  /\ textResult = None
  /\ chapters = <<>>
  /\ batch = EmptyBatch
  /\ ret = None
  /\ textLog = <<>>
  /\ chLog = None

AppInit ==
  /\ view = "landing"
  /\ answers = None
  /\ content = None
  /\ loadingMessage = Msg("Iniciando...", NoOp, 0)
  /\ storage = None
  /\ alerts = <<>>
  /\ others = 0
  /\ runs = 0

\* StepWizard's state (lines 453-460)
Fields == <<"what", "who", "where", "objective", "level">>

\* mutant: the wizard opens with an answer filled in
InitialWizAnswers_Prefilled ==
  [what |-> "", who |-> "Clientes", where |-> "", objective |-> "", level |-> ""]

InitialWizAnswers ==
  [what |-> "", who |-> "", where |-> "", objective |-> "", level |-> ""]

\* a timer whose StepWizard is unmounted can no longer change its step
Stale(timers) == [k \in 1..Len(timers) |-> [timers[k] EXCEPT !.live = FALSE]]

\* a StepWizard is mounted
WizMount ==
  /\ wizStep' = 1
  /\ wizAnswers' = InitialWizAnswers
  /\ wizTimers' = Stale(wizTimers)

\* the view leaves the wizard (or was not on it): no StepWizard is mounted, and the
\* timers in timers stay pending
WizUnmount(timers) ==
  /\ wizStep' = 0
  /\ wizAnswers' = InitialWizAnswers
  /\ wizTimers' = Stale(timers)

WizInit ==
  /\ wizStep = 0
  /\ wizAnswers = InitialWizAnswers
  /\ wizTimers = <<>>

\* the payment state of a page loaded without a session id (lines 614-616, 373)
\* no createPDF call
PdfIdle ==
  /\ data = None
  /\ primaryColor = None
  /\ pdfPc = "idle"
  /\ pdfI = 0
  /\ doc = <<>>

PayInit ==
  /\ isPaid = FALSE
  /\ showPayment = FALSE
  /\ verifyingPayment = FALSE
  /\ url = None
  /\ loading = FALSE
  /\ payPc = "idle"
  /\ verPc = "idle"
  /\ produced = {}
  /\ downloads = <<>>
  /\ mounts = 1

-----------------------------------------------------------------------------
(* callWithRetry on its own: any operation name, attempt count and base delay, *)
(* around an operation that settles in any way at each attempt.               *)

OpNames == { OpName("Gerar Estrutura", 0), OpName("Texto Cap", 1) }
BaseDelays == { DefaultBaseDelay, DefaultBaseDelay \div 4 }

InitRetry ==
  /\ rwPc = "idle"
  /\ rwOp \in OpNames
  /\ rwRetries \in 1..MaxRetries
  /\ rwBase \in BaseDelays
  /\ rwI = 0
  /\ rwOut = None
  /\ rwEvents = <<>>
  /\ variant = "seq"
  /\ GenIdle
  /\ AppInit
  /\ tracked = TRUE
  /\ PdfIdle
  /\ PayInit
  /\ WizInit

CallWithRetry ==
  /\ rwPc = "idle"
  /\ gpc = "idle"
  /\ RwStart(rwOp, rwRetries, rwBase)
  /\ UNCHANGED genVars
  /\ UNCHANGED appVars
  /\ UNCHANGED extVars

NextRetry == CallWithRetry \/ RwSettle \/ RwWake

SpecRetry == InitRetry /\ [][NextRetry]_vars


-----------------------------------------------------------------------------
(* generateMaterial: values *)

Error(message) ==
  [kind |-> "Error", status |-> 0, code |-> 0, message |-> message, op |-> NoOp]

EmptyResponseError == Error("Resposta vazia da IA.")
ConnectError == Error("Não foi possível conectar à IA. Verifique sua chave de API ou tente novamente.")
EmptyOutlineError == Error("Falha ao gerar estrutura.")

\* the body pushed when a chapter fails (lines 213, 1012)
ErrorPlaceholder ==
  IF variant = "seq" THEN "Erro na geração deste capítulo. O conteúdo foi omitido."
  ELSE "Ocorreu um erro ao gerar este capítulo. Tente regenerar o material."

\* the body used when the response has no text (lines 205, 1008)
UnavailableBody ==
  IF variant = "seq" THEN "Conteúdo indisponível." ELSE "Conteúdo não gerado."

HasTitles(o) == "chapterTitles" \in DOMAIN o

\* obj.content
ContentOf(obj) == IF "content" \in DOMAIN obj THEN obj.content ELSE Undefined

\* result.text ? JSON.parse(result.text).content : <fallback>   (lines 205, 1008)
ChapterBody(response) ==
  IF Truthy(response.text)
    THEN LET parsed == JSONParse(response.text)
         IN  IF parsed.ok THEN Fulfilled(ContentOf(parsed.val)) ELSE parsed
    ELSE Fulfilled(UnavailableBody)

\* `data:${mimeType};base64,${data}`
DataUrl(inlineData) ==
  [scheme |-> "data", mimeType |-> inlineData.mimeType, encoding |-> "base64",
   data |-> inlineData.data]

\* the first part with inlineData, as a data URL; None when there is none
RECURSIVE FirstInline(_)
FirstInline(parts) ==
  IF parts = <<>> THEN None
  ELSE IF "inlineData" \in DOMAIN Head(parts) THEN DataUrl(Head(parts).inlineData)
  ELSE FirstInline(Tail(parts))

\* lines 193-200
ExtractImage(imageResult) ==
  IF "parts" \in DOMAIN imageResult THEN FirstInline(imageResult.parts) ELSE None

\* mutant: a rejected image request is not caught
ImageOf_Uncaught(out) == IF out.ok THEN Fulfilled(ExtractImage(out.val)) ELSE out

\* the inner try/catch around the image request (lines 183-203): the image, or
\* nothing when the request was rejected
ImageOf(out) == IF out.ok THEN Fulfilled(ExtractImage(out.val)) ELSE Fulfilled(None)

SeqChapter(title, body, image) == [title |-> title, content |-> body, image |-> image]
BatchChapter(title, body) == [title |-> title, content |-> body]

\* mutant: the finished chapter is not appended
SeqPush_Skip(chs, entry) == chs

\* chapters.push(entry) of the sequential variant (lines 206, 213)
SeqPush(chs, entry) == Append(chs, entry)

\* { ...outline, chapters }   (line 218)
SeqContent(o, chs) == [f \in DOMAIN o \cup {"chapters"} |-> IF f = "chapters" THEN chs ELSE o[f]]

\* lines 1022-1029
BatchContent(o, chs) ==
  [title |-> o.title, subtitle |-> o.subtitle, author |-> o.author,
   summary |-> o.summary, colorTheme |-> o.colorTheme, chapters |-> chs]

\* how a request ended, as the history keeps it
Status(out) == IF out.ok THEN "fulfilled" ELSE "rejected"
Ended(out) == IF out.ok THEN [st |-> "fulfilled", resp |-> out.val] ELSE [st |-> "rejected"]
Log(log, n, entry) == (n :> entry) @@ log

\* a continuation of an async function is due before any timer, response or click
MicrotaskPending ==
  \/ rwPc \in {"returned", "threw"}
  \/ gpc \in {"resolved", "rejected"}
  \/ (gpc = "batch" /\ batch.pending = {})

-----------------------------------------------------------------------------
(* generateMaterial, sequential variant (lines 62-219) *)

\* generateMaterial rejects with err
GenReject(err) ==
  /\ gpc' = "rejected"
  /\ ret' = Rejected(err)
  /\ UNCHANGED <<outline, gi, textResult, chapters, batch, textLog, chLog, loadingMessage>>

\* mutant: every chapter is announced as the first
ChapterMsg_First(o, i) ==
  Msg("Escrevendo capítulo", OpName(o.chapterTitles[1], Len(o.chapterTitles)), 1)

\* `Escrevendo capítulo ${i + 1}/${totalChapters}: "${chapterTitle}"...` (line 153)
ChapterMsg(o, i) ==
  Msg("Escrevendo capítulo", OpName(o.chapterTitles[i + 1], Len(o.chapterTitles)), i + 1)

\* The head of the chapter loop at index i with the chapters chs (tlog is the
\* history of the text requests so far): the next text request is issued through
\* callWithRetry, or the loop is left and the content returned (lines 151-167,
\* 217-218).
SeqLoop(o, i, chs, tlog) ==
  /\ outline' = o
  /\ chapters' = chs
  /\ gi' = i
  /\ textResult' = None
  /\ IF i < Len(o.chapterTitles)
       THEN /\ gpc' = "text"
            /\ loadingMessage' = ChapterMsg(o, i)
            /\ textLog' = Log(tlog, i + 1, "pending")
            /\ RwStart(OpName("Texto Cap", i + 1), DefaultRetries, DefaultBaseDelay)
            /\ ret' = None
       ELSE /\ gpc' = "resolved"
            /\ loadingMessage' = Msg("Finalizando diagramação...", NoOp, 0)
            /\ textLog' = tlog
            /\ ret' = Fulfilled(SeqContent(o, chs))
            /\ RwRelease

\* the outline call is over: lines 118-149
OutlineDone ==
  /\ variant = "seq"
  /\ gpc = "outline"
  /\ rwPc \in {"returned", "threw"}
  /\ LET parsed == IF ~rwOut.ok THEN rwOut
                   ELSE IF ~Truthy(rwOut.val.text) THEN Rejected(EmptyResponseError)
                   ELSE JSONParse(rwOut.val.text)
     IN  IF ~parsed.ok
           THEN GenReject(ConnectError) /\ RwRelease
         ELSE IF ~HasTitles(parsed.val)
           THEN GenReject(TypeError) /\ RwRelease
         ELSE SeqLoop(parsed.val, 0, <<>>, <<>>) /\ UNCHANGED <<batch, chLog>>
  /\ UNCHANGED variant
  /\ UNCHANGED <<view, answers, content, storage, alerts, others, runs>>
  /\ UNCHANGED extVars

\* the chapter's text call is over: lines 167-184, or the catch of lines 211-214
TextDone ==
  /\ gpc = "text"
  /\ rwPc \in {"returned", "threw"}
  /\ IF rwOut.ok
       THEN /\ textResult' = rwOut.val
            /\ gpc' = "imgCool"
            /\ textLog' = Log(textLog, gi + 1, Status(rwOut))
            /\ RwRelease
            /\ UNCHANGED <<outline, gi, chapters, ret, loadingMessage>>
       ELSE SeqLoop(outline, gi + 1,
                    SeqPush(chapters, SeqChapter(outline.chapterTitles[gi + 1], ErrorPlaceholder, None)),
                    Log(textLog, gi + 1, Status(rwOut)))
  /\ chLog' = [ch |-> gi + 1, text |-> Ended(rwOut), image |-> [st |-> "none"]]
  /\ UNCHANGED <<variant, batch>>
  /\ UNCHANGED <<view, answers, content, storage, alerts, others, runs>>
  /\ UNCHANGED extVars

\* the 1000 ms timer fires and the image request is issued: lines 184-191
ImageCooldownDone ==
  /\ gpc = "imgCool"
  /\ gpc' = "image"
  /\ chLog' = [chLog EXCEPT !.image = [st |-> "pending"]]
  /\ RwStart(OpName("Imagem Cap", gi + 1), ImageRetries, DefaultBaseDelay)
  /\ UNCHANGED <<variant, outline, gi, textResult, chapters, batch, ret, textLog>>
  /\ UNCHANGED appVars
  /\ UNCHANGED extVars

\* The image call is over: the image is extracted or skipped, the body read from
\* the text response and the chapter pushed; a failure of either lands in the
\* catch, which pushes the placeholder (lines 193-214).
ImageDone ==
  /\ gpc = "image"
  /\ rwPc \in {"returned", "threw"}
  /\ chLog' = [chLog EXCEPT !.image = Ended(rwOut)]
  /\ LET title == outline.chapterTitles[gi + 1]
         image == ImageOf(rwOut)
         body == IF image.ok THEN ChapterBody(textResult) ELSE image
     IN  IF body.ok
           THEN IF gi < Len(outline.chapterTitles) - 1
                  THEN /\ chapters' = SeqPush(chapters, SeqChapter(title, body.val, image.val))
                       /\ gpc' = "throttle"
                       /\ textResult' = None
                       /\ RwRelease
                       /\ UNCHANGED <<outline, gi, ret, textLog, loadingMessage>>
                  ELSE SeqLoop(outline, gi + 1,
                               SeqPush(chapters, SeqChapter(title, body.val, image.val)), textLog)
           ELSE SeqLoop(outline, gi + 1,
                        SeqPush(chapters, SeqChapter(title, ErrorPlaceholder, None)), textLog)
  /\ UNCHANGED <<variant, batch>>
  /\ UNCHANGED <<view, answers, content, storage, alerts, others, runs>>
  /\ UNCHANGED extVars

\* the 2000 ms timer between two chapters fires: line 209
ThrottleDone ==
  /\ gpc = "throttle"
  /\ SeqLoop(outline, gi + 1, chapters, textLog)
  /\ chLog' = None
  /\ UNCHANGED <<variant, batch>>
  /\ UNCHANGED <<view, answers, content, storage, alerts, others, runs>>
  /\ UNCHANGED extVars

-----------------------------------------------------------------------------
(* generateMaterial, batched variant (lines 916-1030) *)

Min(a, b) == IF a < b THEN a ELSE b

\* mutant: results are kept in the order the requests settle
PromiseAllResolve_CompletionOrder(b, k, value) ==
  [b EXCEPT !.values = [@ EXCEPT ![Len(b.titles) - Cardinality(b.pending) + 1] = value],
            !.pending = @ \ {k}]

\* Promise.all: the k-th promise's value goes to the k-th place of the result
PromiseAllResolve(b, k, value) ==
  [b EXCEPT !.values = [@ EXCEPT ![k] = value], !.pending = @ \ {k}]

\* mutant: a failed chapter gets an empty body
BatchEntry_EmptyOnFailure(chapterTitle, out) ==
  LET body == IF out.ok THEN ChapterBody(out.val) ELSE out
  IN  BatchChapter(chapterTitle, IF body.ok THEN body.val ELSE "")

\* what the async callback of batch.map returns for a settled request (lines 994-1013)
BatchEntry(chapterTitle, out) ==
  LET body == IF out.ok THEN ChapterBody(out.val) ELSE out
  IN  BatchChapter(chapterTitle, IF body.ok THEN body.val ELSE ErrorPlaceholder)

\* The head of the batch loop at index i with the chapters chs: the requests of
\* the next batch are all issued, or the loop is left and the content returned
\* (lines 972-979, 1020-1029).
BatchLoop(o, i, chs) ==
  /\ outline' = o
  /\ chapters' = chs
  /\ gi' = i
  /\ IF i < Len(o.chapterTitles)
       THEN LET endIdx == Min(i + batchSize, Len(o.chapterTitles))
                titles == SubSeq(o.chapterTitles, i + 1, endIdx)
            IN  /\ gpc' = "batch"
                /\ loadingMessage' = Msg("Escrevendo capítulos", OpName("a", endIdx), i + 1)
                /\ batch' = [titles |-> titles,
                             values |-> [k \in 1..Len(titles) |-> None],
                             pending |-> 1..Len(titles)]
                /\ textLog' = [n \in (i + 1)..endIdx |-> "pending"] @@ textLog
                /\ ret' = None
       ELSE /\ gpc' = "resolved"
            /\ loadingMessage' = Msg("Finalizando formatação...", NoOp, 0)
            /\ batch' = EmptyBatch
            /\ ret' = Fulfilled(BatchContent(o, chs))
            /\ UNCHANGED textLog

\* the outline request settles: lines 940-970
BatchOutlineSettle ==
  /\ variant = "batch"
  /\ gpc = "outline"
  /\ \E out \in { Fulfilled(r) : r \in OutlineResponses } \cup { Rejected(e) : e \in RequestErrors } :
       LET parsed == IF ~out.ok THEN out
                     ELSE IF ~Truthy(out.val.text) THEN Rejected(EmptyOutlineError)
                     ELSE JSONParse(out.val.text)
       IN  IF ~parsed.ok THEN GenReject(parsed.err)
           ELSE IF ~HasTitles(parsed.val) THEN GenReject(TypeError)
           ELSE BatchLoop(parsed.val, 0, <<>>) /\ UNCHANGED <<textResult, chLog>>
  /\ UNCHANGED variant
  /\ UNCHANGED rwVars
  /\ UNCHANGED <<view, answers, content, storage, alerts, others, runs>>
  /\ UNCHANGED extVars

\* one request of the batch settles, in any order: lines 994-1013
BatchMemberSettle ==
  /\ gpc = "batch"
  /\ \E k \in batch.pending :
       \E out \in { Fulfilled(r) : r \in TextResponses } \cup { Rejected(e) : e \in RequestErrors } :
         /\ batch' = PromiseAllResolve(batch, k, BatchEntry(batch.titles[k], out))
         /\ textLog' = Log(textLog, gi + k, Status(out))
  /\ UNCHANGED <<variant, gpc, outline, gi, textResult, chapters, ret, chLog>>
  /\ UNCHANGED rwVars
  /\ UNCHANGED appVars
  /\ UNCHANGED extVars

\* mutant: the await is over as soon as one request of the batch has settled
PromiseAllSettled_First(b) == b.pending # 1..Len(b.titles)

\* await Promise.all(batchPromises) is over (line 1016)
PromiseAllSettled(b) == b.pending = {}

\* mutant: the chapters that failed are left out
Push_DropFailed(chs, batchResults) ==
  chs \o SelectSeq(batchResults, LAMBDA chapter : chapter.content # ErrorPlaceholder)

\* chapters.push(...batchResults)   (line 1017)
Push(chs, batchResults) == chs \o batchResults

\* every request of the batch has settled: lines 1016-1018, and the next batch
BatchMerge ==
  /\ gpc = "batch"
  /\ PromiseAllSettled(batch)
  /\ BatchLoop(outline, gi + batchSize, Push(chapters, batch.values))
  /\ UNCHANGED <<variant, textResult, chLog>>
  /\ UNCHANGED rwVars
  /\ UNCHANGED <<view, answers, content, storage, alerts, others, runs>>
  /\ UNCHANGED extVars

-----------------------------------------------------------------------------
(* App (lines 609-694, 1438-1472) *)

\* JSON.stringify drops the fields whose value is undefined
StringifyChapter(ch) ==
  [f \in { g \in DOMAIN ch : IF g = "image" THEN ch[g] # None ELSE ch[g] # Undefined } |-> ch[f]]

Stringify(a, c) ==
  [answers |-> a,
   content |-> [f \in DOMAIN c |->
                  IF f = "chapters" THEN [k \in 1..Len(c.chapters) |-> StringifyChapter(c.chapters[k])]
                  ELSE c[f]]]

\* the effect of lines 651-655, which runs when content or answers changed
SaveEffect(c, a) ==
  IF variant = "seq" /\ c # None /\ a # None THEN Stringify(a, c) ELSE storage

\* the argument of alert() (lines 673, 1459)
AlertText(err) ==
  IF variant = "seq"
    THEN (IF err.message # "" THEN err.message
          ELSE "Não foi possível gerar o conteúdo. Verifique sua conexão.")
    ELSE "Houve um erro de conexão. O processo demorou muito. Tente novamente."

\* handleWizardComplete after its await: lines 669-675, 1455-1461
AwaitDone(out) ==
  IF out.ok
    THEN /\ content' = out.val
         /\ view' = "result"
         /\ storage' = SaveEffect(out.val, answers)
         /\ UNCHANGED alerts
    ELSE /\ alerts' = Append(alerts, AlertText(out.err))
         /\ view' = "landing"
         /\ UNCHANGED <<content, storage>>

StartWizard ==
  /\ ~MicrotaskPending
  /\ view = "landing"
  /\ view' = "wizard"
  /\ UNCHANGED <<answers, content, loadingMessage, storage, alerts, others, runs>>
  /\ UNCHANGED rwVars
  /\ UNCHANGED genVars
  /\ WizMount
  /\ UNCHANGED <<sideVars, payVars>>

OutlineMsg ==
  IF variant = "seq" THEN Msg("Analisando nicho e criando estrutura...", NoOp, 0)
  ELSE Msg("Criando estrutura, capa e sumário...", NoOp, 0)

\* The wizard calls onComplete: handleWizardComplete up to its await, that is
\* generateMaterial up to the outline request (lines 660-668, 93-118, 919-940).
\* The first activation of generateMaterial is followed step by step; the later
\* ones, which may overlap it, are counted in `others`.
OnComplete(finalAnswers) ==
  /\ runs < MaxRuns
  /\ answers' = finalAnswers
  /\ storage' = SaveEffect(content, finalAnswers)
  /\ IF runs = 0 /\ tracked
       THEN /\ gpc' = "outline"
            /\ others' = others
       ELSE /\ others' = others + 1
            /\ UNCHANGED gpc
  /\ view' = "generating"
  /\ loadingMessage' = OutlineMsg
  /\ runs' = runs + 1
  /\ IF runs = 0 /\ tracked /\ variant = "seq"
       THEN RwStart(OpName("Gerar Estrutura", 0), DefaultRetries, DefaultBaseDelay)
       ELSE UNCHANGED rwVars
  /\ UNCHANGED <<variant, outline, gi, textResult, chapters, batch, ret, textLog, chLog>>
  /\ UNCHANGED <<content, alerts>>

\* the wizard, whose steps are not followed here, calls onComplete with any answers
HandleWizardComplete ==
  /\ ~MicrotaskPending
  /\ view = "wizard"
  /\ \E finalAnswers \in AnswerSets : OnComplete(finalAnswers)
  /\ WizUnmount(wizTimers)
  /\ UNCHANGED <<sideVars, payVars>>

\* generateMaterial has settled and handleWizardComplete goes on
HandleSettled ==
  /\ gpc \in {"resolved", "rejected"}
  /\ AwaitDone(ret)
  /\ gpc' = "idle"
  /\ outline' = None
  /\ gi' = 0
  /\ textResult' = None
  /\ chapters' = <<>>
  /\ batch' = EmptyBatch
  /\ ret' = None
  /\ textLog' = <<>>
  /\ chLog' = None
  /\ UNCHANGED <<variant, answers, loadingMessage, others, runs>>
  /\ UNCHANGED rwVars
  /\ WizUnmount(wizTimers)
  /\ UNCHANGED <<sideVars, payVars>>

\* what another activation of generateMaterial settles with: a book, or the
\* failure of its outline
OtherContent ==
  IF variant = "seq" THEN SeqContent(OutlineObject(<<>>), <<>>)
  ELSE BatchContent(OutlineObject(<<>>), <<>>)

\* a book with one chapter, whose text request failed
OtherBook ==
  IF variant = "seq"
    THEN SeqContent(OutlineObject(<<"C">>), <<SeqChapter("C", ErrorPlaceholder, None)>>)
    ELSE BatchContent(OutlineObject(<<"C">>), <<BatchChapter("C", ErrorPlaceholder)>>)

\* where no activation is followed step by step, the others settle with either book
OtherOutcomes ==
  { Fulfilled(c) : c \in (IF tracked THEN {OtherContent} ELSE {OtherContent, OtherBook}) }
  \cup { Rejected(IF variant = "seq" THEN ConnectError ELSE EmptyOutlineError) }

\* another activation settles and its handleWizardComplete goes on
OtherSettled ==
  /\ ~MicrotaskPending
  /\ others > 0
  /\ \E out \in OtherOutcomes : AwaitDone(out)
  /\ others' = others - 1
  /\ UNCHANGED <<answers, loadingMessage, runs>>
  /\ UNCHANGED rwVars
  /\ UNCHANGED genVars
  /\ WizUnmount(wizTimers)
  /\ UNCHANGED <<sideVars, payVars>>

\* Where reset can be clicked: the header button (lines 708-710, 1485-1487) and
\* the result view's (lines 836, 1596); in the ungated revision the logo too (line
\* 1479).
ResetOffered ==
  \/ variant = "batch"
  \/ (view # "landing" /\ ~verifyingPayment)
  \/ (view = "result" /\ content # None)

\* reset, the user confirming (lines 686-694, 1468-1472)
Reset ==
  /\ ~MicrotaskPending
  /\ ResetOffered
  /\ answers' = None
  /\ content' = None
  /\ view' = "landing"
  /\ storage' = None
  /\ isPaid' = FALSE
  /\ UNCHANGED <<loadingMessage, alerts, others, runs>>
  /\ UNCHANGED rwVars
  /\ UNCHANGED genVars
  /\ WizUnmount(wizTimers)
  /\ UNCHANGED <<sideVars, showPayment, verifyingPayment, url, loading, payPc, verPc,
                  produced, downloads, mounts>>

-----------------------------------------------------------------------------
(* The application: either revision, from the landing view *)

Init ==
  /\ variant \in {"seq", "batch"}
  /\ RwIdle
  /\ GenIdle
  /\ AppInit
  /\ tracked = TRUE
  /\ PdfIdle
  /\ PayInit
  /\ WizInit

Next ==
  \/ StartWizard
  \/ HandleWizardComplete
  \/ RwSettle
  \/ RwWake
  \/ OutlineDone
  \/ TextDone
  \/ ImageCooldownDone
  \/ ImageDone
  \/ ThrottleDone
  \/ BatchOutlineSettle
  \/ BatchMemberSettle
  \/ BatchMerge
  \/ HandleSettled
  \/ OtherSettled
  \/ Reset

Spec == Init /\ [][Next]_vars

\* a step of the run followed step by step: a backend call settles, a timer
\* fires, or a continuation runs
PipelineStep ==
  \/ RwSettle
  \/ RwWake
  \/ OutlineDone
  \/ TextDone
  \/ ImageCooldownDone
  \/ ImageDone
  \/ ThrottleDone
  \/ BatchOutlineSettle
  \/ BatchMemberSettle
  \/ BatchMerge
  \/ HandleSettled

\* every backend call settles, every timer fires and the event loop runs the
\* continuations that are due
SpecLive == Spec /\ WF_vars(PipelineStep)

-----------------------------------------------------------------------------
(* The gated revision's payment gate (lines 317-327, 372-387, 618-648, 678-684) *)

\* A session id: its first characters, as many as the prefix has, and the rest.
SessionPrefix == "demo_session_"
SessionId(head, tail) == [head |-> head, tail |-> tail]

\* sessionId.startsWith(prefix)
StartsWith(sessionId, prefix) == sessionId.head = prefix

\* `if (sessionId)`: neither null nor the empty string
TruthyId(sessionId) == sessionId # None /\ sessionId # SessionId("", "")

\* Math.random().toString(36).substring(7): a few digits, or none
RandomSuffixes == {"", "k3x9", "0q"}

\* mutant: the session id is made with another prefix
NewSessionId_OtherPrefix(suffix) == SessionId("demo_sess_", suffix)

\* "demo_session_" + Math.random().toString(36).substring(7)   (line 320)
NewSessionId(suffix) == SessionId(SessionPrefix, suffix)

\* mutant: every session id is accepted
VerifySimulatedPayment_AcceptAll(sessionId) == TRUE

\* verifySimulatedPayment's answer (line 326)
VerifySimulatedPayment(sessionId) == StartsWith(sessionId, SessionPrefix)

\* the session ids a page can be opened with from outside
SessionInputs ==
  { SessionId(SessionPrefix, "k3x9"), SessionId(SessionPrefix, ""),
    SessionId("demo_sess", ""), SessionId("xdemo_session", "_k3x9"), SessionId("", "") }

\* mutant: the answers of the record are not read
ParseBackup_NoAnswers(saved) == [answers |-> None, content |-> saved.content]

\* JSON.parse of the backup record (line 635)
ParseBackup(saved) == [answers |-> saved.answers, content |-> saved.content]

\* mutant: the gate is open
DownloadGate_Open(paid) == FALSE

\* `if (!isPaid)` of handleDownload (line 679)
DownloadGate(paid) == ~paid

\* handleDownload (lines 678-684), from the result view
HandleDownload ==
  /\ ~MicrotaskPending
  /\ variant = "seq"
  /\ view = "result"
  /\ content # None
  /\ Len(downloads) < MaxDownloads
  /\ IF DownloadGate(isPaid)
       THEN /\ showPayment' = TRUE
            /\ downloads' = Append(downloads, [paid |-> isPaid, pdf |-> None])
       ELSE /\ downloads' = Append(downloads, [paid |-> isPaid, pdf |-> content])
            /\ UNCHANGED showPayment
  /\ UNCHANGED <<sideVars, isPaid, verifyingPayment, url, loading, payPc, verPc, produced, mounts>>
  /\ UNCHANGED <<rwVars, genVars, appVars, wizVars>>

\* the modal's close button (lines 392-393, 699): the modal is unmounted
ClosePayment ==
  /\ ~MicrotaskPending
  /\ showPayment
  /\ showPayment' = FALSE
  /\ loading' = FALSE
  /\ UNCHANGED <<sideVars, isPaid, verifyingPayment, url, payPc, verPc, produced, downloads, mounts>>
  /\ UNCHANGED <<rwVars, genVars, appVars, wizVars>>

\* handleCheckout up to its await (lines 375-378)
HandleCheckout ==
  /\ ~MicrotaskPending
  /\ showPayment
  /\ ~loading
  /\ loading' = TRUE
  /\ payPc' = "creating"
  /\ UNCHANGED <<sideVars, isPaid, showPayment, verifyingPayment, url, verPc, produced, downloads, mounts>>
  /\ UNCHANGED <<rwVars, genVars, appVars, wizVars>>

\* The page is loaded with the session id sessionId (None: without one): whatever
\* was in flight is gone, the App is mounted with its initial state and the mount
\* effect runs up to verifySimulatedPayment (lines 610-627).
PageLoad(sessionId) ==
  /\ mounts < MaxLoads
  /\ mounts' = mounts + 1
  /\ url' = sessionId
  /\ answers' = None
  /\ content' = None
  /\ isPaid' = FALSE
  /\ showPayment' = FALSE
  /\ loading' = FALSE
  /\ payPc' = "idle"
  /\ others' = 0
  /\ IF TruthyId(sessionId)
       THEN /\ verifyingPayment' = TRUE
            /\ view' = "generating"
            /\ loadingMessage' = Msg("Confirmando licença...", NoOp, 0)
            /\ verPc' = "verifying"
       ELSE /\ verifyingPayment' = FALSE
            /\ view' = "landing"
            /\ loadingMessage' = Msg("Iniciando...", NoOp, 0)
            /\ verPc' = "idle"
  /\ RwRelease
  /\ gpc' = "idle"
  /\ outline' = None
  /\ gi' = 0
  /\ textResult' = None
  /\ chapters' = <<>>
  /\ batch' = EmptyBatch
  /\ ret' = None
  /\ textLog' = <<>>
  /\ chLog' = None
  /\ wizStep' = 0
  /\ wizAnswers' = InitialWizAnswers
  /\ wizTimers' = <<>>
  /\ UNCHANGED <<variant, storage, alerts, runs, sideVars, downloads>>

\* createSimulatedSession's timer fires: the session id is made and the browser
\* sent to the URL that carries it (lines 318-321, 379-381)
CheckoutDone ==
  /\ ~MicrotaskPending
  /\ payPc = "creating"
  /\ \E suffix \in RandomSuffixes :
       /\ produced' = produced \cup {NewSessionId(suffix)}
       /\ PageLoad(NewSessionId(suffix))

\* the logo: window.location.href = "/"   (line 703)
LogoClick ==
  /\ ~MicrotaskPending
  /\ variant = "seq"
  /\ PageLoad(None)
  /\ UNCHANGED produced

\* the page is opened or reloaded with a session id in its URL
OpenUrl ==
  /\ ~MicrotaskPending
  /\ variant = "seq"
  /\ \E sessionId \in SessionInputs \cup {url} : PageLoad(sessionId)
  /\ UNCHANGED produced

\* verifySimulatedPayment has answered: the `then` of the mount effect, and the
\* save effect after it (lines 628-646, 651-655)
VerifyDone ==
  /\ verPc = "verifying"
  /\ verPc' = "idle"
  /\ IF VerifySimulatedPayment(url)
       THEN /\ isPaid' = TRUE
            /\ showPayment' = FALSE
            /\ IF storage # None
                 THEN /\ answers' = ParseBackup(storage).answers
                      /\ content' = ParseBackup(storage).content
                      /\ view' = "result"
                      /\ storage' = SaveEffect(ParseBackup(storage).content, ParseBackup(storage).answers)
                 ELSE /\ view' = "landing"
                      /\ UNCHANGED <<answers, content, storage>>
            /\ WizUnmount(wizTimers)
       ELSE UNCHANGED <<isPaid, showPayment, answers, content, view, storage, wizVars>>
  /\ url' = None
  /\ verifyingPayment' = FALSE
  /\ UNCHANGED <<loadingMessage, alerts, others, runs>>
  /\ UNCHANGED <<sideVars, loading, payPc, produced, downloads, mounts>>
  /\ UNCHANGED <<rwVars, genVars>>

\* The gated application with its payment gate; the steps of generateMaterial are
\* not followed.
InitPay ==
  /\ variant = "seq"
  /\ RwIdle
  /\ GenIdle
  /\ AppInit
  /\ tracked = FALSE
  /\ PdfIdle
  /\ PayInit
  /\ WizInit

NextPay ==
  \/ StartWizard
  \/ HandleWizardComplete
  \/ OtherSettled
  \/ Reset
  \/ HandleDownload
  \/ ClosePayment
  \/ HandleCheckout
  \/ CheckoutDone
  \/ LogoClick
  \/ OpenUrl
  \/ VerifyDone

SpecPay == InitPay /\ [][NextPay]_vars

\* The timers of the page fire: the 1000 ms of verifySimulatedPayment and the
\* 1500 ms of createSimulatedSession. Nothing obliges the user to click.
SpecPayLive == SpecPay /\ WF_vars(VerifyDone) /\ WF_vars(CheckoutDone)

-----------------------------------------------------------------------------
(* StepWizard (lines 452-606, 1281-1436) *)

\* what the user types at step 1, and the cards of steps 2 to 5 that are clicked
TypedTexts == {"", "Vendo bolos caseiros"}
Options ==
  [who |-> {"Clientes", "Alunos"}, where |-> {"WhatsApp"},
   objective |-> {"Vender"}, level |-> {"Iniciante", "Avançado"}]

\* the input's onChange (line 500)
WizType ==
  /\ ~MicrotaskPending
  /\ view = "wizard"
  /\ wizStep = 1
  /\ \E text \in TypedTexts : wizAnswers' = [wizAnswers EXCEPT !.what = text]
  /\ UNCHANGED <<wizStep, wizTimers>>
  /\ UNCHANGED <<sideVars, payVars>>
  /\ UNCHANGED <<rwVars, genVars, appVars>>

\* nextStep (lines 462-465), from the button or the Enter key of step 1, which
\* are there while answers.what is not empty (lines 501-505)
WizNextStep ==
  /\ ~MicrotaskPending
  /\ view = "wizard"
  /\ wizStep = 1
  /\ wizAnswers.what # ""
  /\ IF wizStep < 5
       THEN /\ wizStep' = wizStep + 1
            /\ UNCHANGED <<wizAnswers, wizTimers>>
            /\ UNCHANGED <<rwVars, genVars, appVars>>
       ELSE /\ OnComplete(wizAnswers)
            /\ WizUnmount(wizTimers)
  /\ UNCHANGED <<sideVars, payVars>>

\* a card of the step shown can be clicked at any time
CardClickable(timers) == TRUE

\* updateAnswer(key, value) up to its setTimeout (lines 467-470): a card of step
\* 2, 3, 4 or 5 is clicked
WizChoose ==
  /\ ~MicrotaskPending
  /\ view = "wizard"
  /\ wizStep \in 2..5
  /\ CardClickable(wizTimers)
  /\ Len(wizTimers) < MaxTimers
  /\ \E value \in Options[Fields[wizStep]] :
       /\ wizAnswers' = [wizAnswers EXCEPT ![Fields[wizStep]] = value]
       /\ wizTimers' = Append(wizTimers,
            [step |-> wizStep, answers |-> wizAnswers, key |-> Fields[wizStep],
             value |-> value, live |-> TRUE])
  /\ UNCHANGED wizStep
  /\ UNCHANGED <<sideVars, payVars>>
  /\ UNCHANGED <<rwVars, genVars, appVars>>

\* the oldest 400 ms timer fires (lines 470-473): with the step and answers its
\* callback closed over, the step is advanced or onComplete called
WizTimerFire ==
  /\ ~MicrotaskPending
  /\ wizTimers # <<>>
  /\ LET timer == Head(wizTimers)
     IN  IF timer.step < 5
           THEN /\ wizStep' = IF timer.live THEN wizStep + 1 ELSE wizStep
                /\ wizTimers' = Tail(wizTimers)
                /\ UNCHANGED wizAnswers
                /\ UNCHANGED <<rwVars, genVars, appVars>>
           ELSE /\ OnComplete([timer.answers EXCEPT ![timer.key] = timer.value])
                /\ WizUnmount(Tail(wizTimers))
  /\ UNCHANGED <<sideVars, payVars>>

\* The application with its wizard followed click by click; the steps of
\* generateMaterial are not followed.
InitWizard ==
  /\ variant \in {"seq", "batch"}
  /\ RwIdle
  /\ GenIdle
  /\ AppInit
  /\ tracked = FALSE
  /\ PdfIdle
  /\ PayInit
  /\ WizInit

NextWizard ==
  \/ StartWizard
  \/ WizType
  \/ WizNextStep
  \/ WizChoose
  \/ WizTimerFire
  \/ OtherSettled
  \/ Reset

SpecWizard == InitWizard /\ [][NextWizard]_vars

-----------------------------------------------------------------------------
(* createPDF (lines 222-314, 1033-1250) *)

\* a string as the sequence of its characters; a number, and NaN
Str(chars) == [chars |-> chars]
Num(n) == [n |-> n]
NaN == [nan |-> TRUE]

HexDigitsLower == <<"0", "1", "2", "3", "4", "5", "6", "7", "8", "9", "a", "b", "c", "d", "e", "f">>
HexDigitsUpper == <<"0", "1", "2", "3", "4", "5", "6", "7", "8", "9", "A", "B", "C", "D", "E", "F">>
WhiteSpace == {" "}

\* the value of c as a digit, 36 when it is none
DigitValue(c) ==
  IF \E k \in 1..16 : HexDigitsLower[k] = c \/ HexDigitsUpper[k] = c
    THEN (CHOOSE k \in 1..16 : HexDigitsLower[k] = c \/ HexDigitsUpper[k] = c) - 1
    ELSE 36

\* String.prototype.slice(start, end) with 0 <= start <= end
Slice(s, start, end) == SubSeq(s, Min(start, Len(s)) + 1, Min(end, Len(s)))

RECURSIVE TrimStart(_)
TrimStart(s) == IF s # <<>> /\ Head(s) \in WhiteSpace THEN TrimStart(Tail(s)) ELSE s

\* the longest prefix of s made of digits of the radix
RECURSIVE DigitsPrefix(_, _)
DigitsPrefix(s, radix) ==
  IF s # <<>> /\ DigitValue(Head(s)) < radix
    THEN <<Head(s)>> \o DigitsPrefix(Tail(s), radix)
    ELSE <<>>

RECURSIVE DigitsValue(_, _, _)
DigitsValue(digits, radix, acc) ==
  IF digits = <<>> THEN acc
  ELSE DigitsValue(Tail(digits), radix, acc * radix + DigitValue(Head(digits)))

\* parseInt(string, radix): leading white space is dropped, then a sign, then for
\* radix 16 a "0x" or "0X"; the digits that follow are the number, and without
\* any the result is NaN
ParseInt(string, radix) ==
  LET trimmed  == TrimStart(string)
      negative == trimmed # <<>> /\ Head(trimmed) = "-"
      unsigned == IF trimmed # <<>> /\ Head(trimmed) \in {"+", "-"} THEN Tail(trimmed) ELSE trimmed
      stripped == IF radix = 16 /\ Len(unsigned) >= 2 /\ unsigned[1] = "0" /\ unsigned[2] \in {"x", "X"}
                    THEN SubSeq(unsigned, 3, Len(unsigned)) ELSE unsigned
      digits   == DigitsPrefix(stripped, radix)
  IN  IF digits = <<>> THEN NaN
      ELSE Num(IF negative THEN 0 - DigitsValue(digits, radix, 0) ELSE DigitsValue(digits, radix, 0))

Rgb(r, g, b) == [r |-> r, g |-> g, b |-> b]

\* hexToRgb (lines 229-236, 1047-1054)
HexToRgb(hex) ==
  IF hex = None \/ hex.chars = <<>> \/ Head(hex.chars) # "#"
    THEN Rgb(Num(30), Num(41), Num(59))
    ELSE Rgb(ParseInt(Slice(hex.chars, 1, 3), 16),
             ParseInt(Slice(hex.chars, 3, 5), 16),
             ParseInt(Slice(hex.chars, 5, 7), 16))

\* Lengths are in thousandths of a millimetre.
pageWidth == 210000
pageHeight == 297000
margin == 20000
fontSize == 12
LineStep == (fontSize * 1000 * 18) \div 25     \* (fontSize / 2.5) * 1.8
imgWidth == pageWidth - (margin * 2)
imgHeight == (imgWidth * 9) \div 16

\* doc.splitTextToSize(text, width).length: a text is kept as the number of
\* lines it is split into
SplitTextToSize(text) == text.lines
EmptyText == [s |-> "", lines |-> 1]
\* chapter.content || ""
SafeContent(chapterContent) == IF chapterContent = None THEN EmptyText ELSE chapterContent

\* a page: its header, the chapter title set on it, whether an image was
\* placed on it, and the number of body lines written on it
Blank(kind) == [kind |-> kind, header |-> None, title |-> None, image |-> FALSE, lines |-> 0]

\* mutant: the header numbers the chapters from zero
HeaderNumber_ZeroBased(index) == index

\* `Capítulo ${index + 1}` (lines 270, 1137, 1168)
HeaderNumber(index) == index + 1

Header(index, cont) == [n |-> HeaderNumber(index), cont |-> cont]

\* the page added when the body overflows (lines 304-307, 1161-1175)
ContPage(index) ==
  IF variant = "seq" THEN Blank("chapter")
  ELSE [Blank("chapter") EXCEPT !.header = Header(index, TRUE)]

\* textLines.forEach (lines 303-310, 1160-1179), n lines left, the cursor at y
RECURSIVE TextLines(_, _, _, _)
TextLines(pages, y, n, index) ==
  IF n = 0 THEN pages
  ELSE LET over == y > pageHeight - margin
           ps   == IF over THEN Append(pages, ContPage(index)) ELSE pages
           yy   == IF over THEN 35000 ELSE y
       IN  TextLines([ps EXCEPT ![Len(ps)].lines = @ + 1], yy + LineStep, n - 1, index)

\* one call of the chapter forEach callback (lines 263-311, 1130-1180)
ChapterPages(pages, chapter, index) ==
  LET first   == [Blank("chapter") EXCEPT !.header = Header(index, FALSE), !.title = chapter.title]
      p1      == Append(pages, first)
      y1      == 40000 + (SplitTextToSize(chapter.title) * 12000) + 10000
      hasImg  == variant = "seq" /\ chapter.image # None
      overImg == hasImg /\ y1 + imgHeight > pageHeight - margin
      p2      == IF overImg THEN Append(p1, Blank("chapter")) ELSE p1
      y2      == IF overImg THEN 35000 ELSE y1
      drawn   == IF hasImg THEN chapter.image.valid ELSE FALSE   \* addImage throws on a bad image
      p3      == IF drawn THEN [p2 EXCEPT ![Len(p2)].image = TRUE] ELSE p2
      y3      == IF drawn THEN y2 + imgHeight + 10000 ELSE y2
  IN  TextLines(p3, y3, SplitTextToSize(SafeContent(chapter.content)), index)

\* the table of contents of the ungated revision (lines 1097-1126)
RECURSIVE TocLines(_, _, _)
TocLines(pages, tocY, n) ==
  IF n = 0 THEN pages
  ELSE LET over == tocY > pageHeight - 30000
           ps   == IF over THEN Append(pages, Blank("toc")) ELSE pages
           yy   == IF over THEN 40000 ELSE tocY
       IN  TocLines([ps EXCEPT ![Len(ps)].lines = @ + 1], yy + 10000, n - 1)

\* the arguments createPDF is called with
BookTitle == [s |-> "Guia", lines |-> 1]
PdfTitles == {BookTitle, None}
ThemeColor == Str(<<"#", "1", "e", "2", "9", "3", "b">>)
HexPairs == { <<"1", "e">>, <<"2", "9">>, <<"3", "b">>, <<"F", "f">>,
              <<"1", "g">>, <<"z", "z">>, <<"-", "1">> }
HexInputs ==
  {None} \cup
  { Str(SubSeq(prefix \o r \o g \o b \o <<"8", "0">>, 1, n)) :
      prefix \in {<<"#">>, <<>>}, r \in HexPairs, g \in HexPairs, b \in HexPairs,
      n \in 0..MaxHexLen }

ChapterTitle(k) == [s |-> AllTitles[k], lines |-> IF k = 1 THEN 1 ELSE 11]
PdfImages == {None, [valid |-> TRUE], [valid |-> FALSE]}
PdfBodies == {None, [s |-> GeneratedText, lines |-> 1], [s |-> GeneratedText, lines |-> 30]}
PdfChapters(k) ==
  { [title |-> ChapterTitle(k), content |-> body, image |-> image] :
      body \in PdfBodies, image \in PdfImages }
ChapterLists ==
  UNION { { chs \in [1..n -> UNION { PdfChapters(k) : k \in 1..n }] :
              \A k \in 1..n : chs[k] \in PdfChapters(k) } : n \in 0..MaxPdfChapters }

ContentData(title, colorTheme, chs) == [title |-> title, colorTheme |-> colorTheme, chapters |-> chs]
PdfInputs ==
  { ContentData(BookTitle, hex, <<>>) : hex \in HexInputs }
  \cup { ContentData(title, ThemeColor, chs) : title \in PdfTitles, chs \in ChapterLists }

\* createPDF up to the chapter forEach: the colour, the cover (lines 222-258,
\* 1033-1095) and in the ungated revision the table of contents; toUpperCase
\* throws on a title that is not there
CreatePDF ==
  /\ pdfPc = "idle"
  /\ data # None
  /\ primaryColor' = HexToRgb(data.colorTheme)
  /\ pdfPc' = IF data.title = None THEN "threw" ELSE "chapters"
  /\ doc' = IF data.title = None \/ variant = "seq" THEN <<Blank("cover")>>
            ELSE TocLines(<<Blank("cover"), Blank("toc")>>, 60000, Len(data.chapters))
  /\ UNCHANGED <<data, pdfI>>
  /\ UNCHANGED <<rwVars, genVars, appVars, tracked, payVars, wizVars>>

\* the forEach callback runs for the next chapter
ChapterForEach ==
  /\ pdfPc = "chapters"
  /\ pdfI < Len(data.chapters)
  /\ doc' = ChapterPages(doc, data.chapters[pdfI + 1], pdfI)
  /\ pdfI' = pdfI + 1
  /\ UNCHANGED <<data, primaryColor, pdfPc>>
  /\ UNCHANGED <<rwVars, genVars, appVars, tracked, payVars, wizVars>>

\* after the forEach: in the ungated revision the back cover and the
\* acknowledgements (lines 1182-1245), then doc.save (lines 313, 1247)
Save ==
  /\ pdfPc = "chapters"
  /\ pdfI = Len(data.chapters)
  /\ doc' = IF variant = "seq" THEN doc ELSE doc \o <<Blank("back"), Blank("ack")>>
  /\ pdfPc' = "saved"
  /\ UNCHANGED <<data, primaryColor, pdfI>>
  /\ UNCHANGED <<rwVars, genVars, appVars, tracked, payVars, wizVars>>

\* createPDF on its own, called with any ContentData
InitPdf ==
  /\ variant \in {"seq", "batch"}
  /\ RwIdle
  /\ GenIdle
  /\ AppInit
  /\ tracked = FALSE
  /\ PayInit
  /\ WizInit
  /\ data \in PdfInputs
  /\ primaryColor = None
  /\ pdfPc = "idle"
  /\ pdfI = 0
  /\ doc = <<>>

NextPdf == CreatePDF \/ ChapterForEach \/ Save

SpecPdf == InitPdf /\ [][NextPdf]_vars

-----------------------------------------------------------------------------
(* Observations of one callWithRetry activation *)

IsInvoke(e) == e.ev = "invoke"
IsSleep(e) == e.ev = "sleep"
IsProgress(e) == e.ev = "progress"
IsFailure(e) == e.ev = "settle" /\ ~e.out.ok

Invocations == Len(SelectSeq(rwEvents, IsInvoke))
Failures == SelectSeq(rwEvents, IsFailure)
Sleeps == [k \in 1..Len(SelectSeq(rwEvents, IsSleep)) |-> SelectSeq(rwEvents, IsSleep)[k].n]
ProgressCount == Len(SelectSeq(rwEvents, IsProgress))

RECURSIVE SumSeq(_)
SumSeq(q) == IF q = <<>> THEN 0 ELSE Head(q) + SumSeq(Tail(q))

AllRateLimit(fs) == \A j \in 1..Len(fs) : fs[j].out.err \in RateLimitErrors

\* C4: an operation that fails with a rate-limit signal k < retries times and then
\* succeeds is invoked k+1 times, its result is returned, and the wrapper sleeps k
\* times, the i-th wait being baseDelay * 2^i, baseDelay * (2^k - 1) in all
\* (0, 4000 or 12000 with the defaults); the wrapper does not give up before.
C4_BackoffSchedule ==
  /\ rwPc = "returned" =>
       LET k == Len(Failures) IN
         /\ k < rwRetries
         /\ AllRateLimit(Failures)
         /\ Invocations = k + 1
         /\ rwOut.ok
         /\ rwOut = rwEvents[Len(rwEvents)].out
         /\ Len(Sleeps) = k
         /\ \A j \in 1..k : Sleeps[j] = rwBase * 2^(j - 1)
         /\ SumSeq(Sleeps) = rwBase * (2^k - 1)
         /\ (rwRetries = 3 /\ rwBase = 4000) => SumSeq(Sleeps) \in {0, 4000, 12000}
  /\ rwPc = "threw" => ~(AllRateLimit(Failures) /\ Len(Failures) < rwRetries)

C4_Witness ==
  /\ rwPc = "returned"
  /\ rwRetries = 3 /\ rwBase = 4000
  /\ Len(Failures) = 2
  /\ SumSeq(Sleeps) = 12000

\* C5: an attempt that fails with an error that is no rate-limit signal ends the
\* activation at once: that same error is thrown, and no progress message, sleep
\* or further invocation follows it.
C5_NonRateLimitPropagates ==
  \A p \in 1..Len(rwEvents) :
    (IsFailure(rwEvents[p]) /\ rwEvents[p].out.err \in OtherErrors) =>
      /\ p = Len(rwEvents)
      /\ rwPc = "threw"
      /\ rwOut = Rejected(rwEvents[p].out.err)

C5_Witness ==
  /\ rwPc = "threw"
  /\ rwRetries = 3
  /\ Invocations = 2
  /\ rwOut.err \in OtherErrors

\* C6 (as claimed): when all `retries` attempts fail with a rate-limit error, the
\* activation fails with the terminal error naming the operation.
C6_TerminalFailureNamesOperation ==
  (rwPc = "threw" /\ Len(Failures) = rwRetries /\ AllRateLimit(Failures)) =>
    (rwOut.err.kind = "terminal" /\ rwOut.err.op = rwOp)

\* C7: the operation is invoked at most `retries` times and the wrapper sleeps at
\* most retries-1 times; a sleep is always followed by another attempt, and the
\* activation ends returning a result or throwing.
C7_AtMostRetriesAttempts ==
  /\ Invocations <= rwRetries
  /\ Len(Sleeps) <= rwRetries - 1
  /\ rwPc = "sleeping" => rwI + 1 < rwRetries
  /\ rwPc = "returned" => rwOut.ok
  /\ rwPc = "threw" => ~rwOut.ok
  /\ rwPc = "awaiting" => (Len(Sleeps) = rwI /\ Invocations = rwI + 1)

C7_Witness ==
  /\ rwPc = "returned"
  /\ rwRetries = 3
  /\ Invocations = 3
  /\ Len(Sleeps) = 2

\* C8: every backoff wait is immediately preceded by exactly one progress message,
\* which names the operation and the wait; no progress message is emitted without
\* a wait following it.
C8_ProgressBeforeEachWait ==
  /\ \A p \in 1..Len(rwEvents) :
       IsSleep(rwEvents[p]) =>
         /\ p > 2
         /\ IsProgress(rwEvents[p - 1])
         /\ rwEvents[p - 1].op = rwOp
         /\ rwEvents[p - 1].n * 1000 = rwEvents[p].n
         /\ ~IsProgress(rwEvents[p - 2])
  /\ \A p \in 1..Len(rwEvents) :
       IsProgress(rwEvents[p]) => (p < Len(rwEvents) /\ IsSleep(rwEvents[p + 1]))
  /\ rwPc = "sleeping" =>
       /\ IsSleep(rwEvents[Len(rwEvents)])
       /\ loadingMessage.op = rwOp
       /\ loadingMessage.n * 1000 = rwEvents[Len(rwEvents)].n

C8_Witness ==
  /\ rwPc = "sleeping"
  /\ Len(Sleeps) = 2
  /\ ProgressCount = 2

-----------------------------------------------------------------------------
(* generateMaterial: the chapters of a run *)

\* C1: whenever generateMaterial resolves, in either variant and whatever the
\* chapter and image requests did, the content it returns has as many chapters as
\* the outline has chapter titles.
C1_ChapterCountMatchesOutline ==
  gpc = "resolved" =>
    /\ ret.ok
    /\ Len(ret.val.chapters) = Len(outline.chapterTitles)

C1_Witness ==
  /\ gpc = "resolved"
  /\ variant = "batch"
  /\ Len(outline.chapterTitles) = 4
  /\ Len(ret.val.chapters) = 4
  /\ \E i, j \in DOMAIN textLog : textLog[i] = "rejected" /\ textLog[j] = "fulfilled"

\* C2: a chapter whose text request is rejected does not abort the run: the run
\* never rejects once a chapter was requested, the sequential loop pushes the
\* placeholder entry at once, and the returned content has at that position the
\* chapter's title with the non-empty placeholder body, every later chapter having
\* been requested, settled and given its entry.
C2_TextFailureKeepsRunGoing ==
  /\ gpc = "rejected" => textLog = <<>>
  /\ \A i \in DOMAIN textLog :
       (variant = "seq" /\ textLog[i] = "rejected") =>
         /\ i <= Len(chapters)
         /\ chapters[i] = SeqChapter(outline.chapterTitles[i], ErrorPlaceholder, None)
  /\ gpc = "resolved" =>
       \A i \in DOMAIN textLog :
         textLog[i] = "rejected" =>
           /\ i <= Len(ret.val.chapters)
           /\ ret.val.chapters[i].title = outline.chapterTitles[i]
           /\ ret.val.chapters[i].content = ErrorPlaceholder
           /\ ret.val.chapters[i].content # ""
           /\ \A j \in (i + 1)..Len(outline.chapterTitles) :
                /\ j \in DOMAIN textLog
                /\ textLog[j] \in {"fulfilled", "rejected"}
                /\ j <= Len(ret.val.chapters)
                /\ ret.val.chapters[j].title = outline.chapterTitles[j]

C2_Witness ==
  /\ gpc = "resolved"
  /\ variant = "seq"
  /\ Len(outline.chapterTitles) = 2
  /\ textLog[1] = "rejected"
  /\ textLog[2] = "fulfilled"
  /\ ret.val.chapters[1].content = ErrorPlaceholder
  /\ ret.val.chapters[2].content = GeneratedText

\* C3: the chapters carry the outline's titles in the outline's order: at every
\* moment chapters[i].title = outline.chapterTitles[i], a settled request of a
\* batch has its entry at its own place of the batch whatever settled before it,
\* and the returned content has one chapter per title, in order.
C3_TitlesInOutlineOrder ==
  /\ outline # None =>
       /\ Len(chapters) <= Len(outline.chapterTitles)
       /\ \A i \in 1..Len(chapters) : chapters[i].title = outline.chapterTitles[i]
  /\ gpc = "batch" =>
       \A k \in 1..Len(batch.titles) :
         /\ batch.titles[k] = outline.chapterTitles[gi + k]
         /\ k \notin batch.pending =>
              /\ batch.values[k] # None
              /\ batch.values[k].title = batch.titles[k]
  /\ gpc = "resolved" =>
       /\ Len(ret.val.chapters) = Len(outline.chapterTitles)
       /\ \A i \in 1..Len(ret.val.chapters) :
            ret.val.chapters[i].title = outline.chapterTitles[i]

\* titles [C, A, D, B]: D's request has settled before C's
C3_Witness ==
  /\ gpc = "batch"
  /\ gi = 0
  /\ outline.chapterTitles = SubSeq(AllTitles, 1, 4)
  /\ batch.pending = {1}
  /\ batch.values[3].title = AllTitles[3]
  /\ batch.values[2].title = AllTitles[2]

\* C9 (as claimed): when the outline step fails, generateMaterial rejects without
\* having issued a chapter or image request, and handleWizardComplete shows an
\* alert, returns to the landing view, leaves content null and writes nothing to
\* the persisted storage.
C9_OutlineFailureAbortsRun ==
  [][(gpc = "rejected" /\ gpc' = "idle") =>
       /\ ~ret.ok
       /\ textLog = <<>> /\ chLog = None /\ chapters = <<>>
       /\ Len(alerts') = Len(alerts) + 1
       /\ view' = "landing"
       /\ content' = None
       /\ storage' = storage]_vars

\* the image request of the chapter worked on last has ended without an image
NoInlineImage(resp) ==
  ~("parts" \in DOMAIN resp /\ \E k \in 1..Len(resp.parts) : "inlineData" \in DOMAIN resp.parts[k])

ImageFailed ==
  /\ variant = "seq"
  /\ chLog # None
  /\ chLog.image.st \in {"fulfilled", "rejected"}
  /\ chLog.image.st = "fulfilled" => NoInlineImage(chLog.image.resp)

\* C10 (as claimed): when the image request of a chapter fails or brings no inline
\* image and the chapter's text request succeeded, the chapter's entry has no
\* image and its body is not the error placeholder.
C10_AsClaimed ==
  ImageFailed =>
    /\ chLog.ch <= Len(chapters)
    /\ chapters[chLog.ch].image = None
    /\ chapters[chLog.ch].content # "Erro na geração deste capítulo. O conteúdo foi omitido."

\* C10 (amended): when the image request of a chapter fails or brings no inline
\* image, the chapter's entry is pushed with the chapter's title and no image,
\* and its body is read from the text response alone: the content field of the
\* JSON (undefined when the JSON has none), "Conteúdo indisponível." when the
\* response has no text, and the error placeholder only when the text is not
\* JSON.
C10_ImageFailureKeepsChapter ==
  ImageFailed =>
    /\ chLog.text.st = "fulfilled"
    /\ chLog.ch <= Len(chapters)
    /\ LET entry == chapters[chLog.ch]
           text == chLog.text.resp.text
       IN  /\ entry.title = outline.chapterTitles[chLog.ch]
           /\ entry.image = None
           /\ text.t = "absent" => entry.content = "Conteúdo indisponível."
           /\ text.t = "malformed" =>
                entry.content = "Erro na geração deste capítulo. O conteúdo foi omitido."
           /\ text.t = "json" =>
                entry.content = (IF "content" \in DOMAIN text.v THEN text.v.content ELSE Undefined)

\* the image request was rejected, the text was JSON with a content field
C10_Witness ==
  /\ ImageFailed
  /\ chLog.image.st = "rejected"
  /\ chLog.ch = 1
  /\ gpc = "throttle"
  /\ chapters[1].content = GeneratedText
  /\ chapters[1].image = None

-----------------------------------------------------------------------------
(* The payment gate *)

\* C11: in the gated revision createPDF runs only in a handleDownload call made
\* while isPaid is true; a handleDownload call with isPaid false opens the payment
\* modal, exports nothing and leaves content, answers, view and isPaid as they
\* were.
C11_NoExportWhileUnpaid ==
  [][Len(downloads') > Len(downloads) =>
       LET call == downloads'[Len(downloads')]
       IN  /\ call.pdf # None => isPaid
           /\ ~isPaid =>
                /\ call.pdf = None
                /\ showPayment'
                /\ UNCHANGED <<content, answers, view, isPaid>>]_vars

C11_Witness ==
  /\ downloads # <<>>
  /\ downloads[Len(downloads)] = [paid |-> FALSE, pdf |-> None]
  /\ showPayment
  /\ ~isPaid
  /\ view = "result"
  /\ content # None

\* C12: every session id createSimulatedSession makes is accepted by
\* verifySimulatedPayment; the checkout sends the browser to a page that verifies
\* that id, and when the verification of such an id is over isPaid is true.
C12_PaymentRoundTrip ==
  [][/\ \A suffix \in RandomSuffixes : VerifySimulatedPayment(NewSessionId(suffix))
     /\ \A sessionId \in produced' : VerifySimulatedPayment(sessionId)
     /\ produced' # produced =>
          /\ url' \in produced'
          /\ verPc' = "verifying"
     /\ (verPc = "verifying" /\ verPc' = "idle" /\ mounts' = mounts /\ url \in produced) =>
          /\ isPaid'
          /\ ~verifyingPayment'
          /\ ~showPayment']_vars

\* back from a checkout started in the result view, with the book restored
C12_Witness ==
  /\ mounts = 2
  /\ produced # {}
  /\ downloads # <<>>
  /\ verPc = "idle"
  /\ isPaid
  /\ view = "result"
  /\ content # None

-----------------------------------------------------------------------------
(* reset and the wizard *)

\* A reset is the step that ends in the landing view and changes nothing but what
\* reset writes (answers, content, isPaid, view, the record) and the wizard it
\* unmounts: no run starts or settles, no timer fires, no page is loaded.
ResetStep ==
  /\ view' = "landing"
  /\ wizStep' = 0
  /\ Len(wizTimers') = Len(wizTimers)
  /\ UNCHANGED <<loadingMessage, alerts, others, runs, rwVars, genVars>>
  /\ UNCHANGED <<showPayment, verifyingPayment, url, loading, payPc, verPc, produced,
                  downloads, mounts>>

-----------------------------------------------------------------------------
(* C14: persistence of a finished run (lines 650-655, 660-676) *)

\* a step of handleWizardComplete that installs a run's result as content
InstallsContent == content' # None /\ content' # content /\ view' = "result" /\ runs' = runs

\* C14: in the gated revision, whenever a run's result is installed as content
\* the record 'prontopdf_backup' holds that Answers and Content pair, as
\* JSON.stringify writes it, and nothing of an earlier record.
C14_RecordHoldsFinishedRun ==
  [][(variant = "seq" /\ InstallsContent /\ mounts' = mounts)
       => /\ answers' # None
          /\ storage' = Stringify(answers', content')]_vars

-----------------------------------------------------------------------------
(* C15: the wizard's five answers (lines 452-475, 1281-1304) *)

\* C15: the wizard shows steps 1 to 5 only, leaves a step only when that step's
\* field is answered, and calls onComplete (a run starts) only with answers
\* whose five fields are all non-empty.
C15_OnCompleteWithFiveAnswers ==
  [][/\ wizStep' \in 0..5
     /\ (wizStep \in 1..5 /\ wizStep' = wizStep + 1) => wizAnswers[Fields[wizStep]] # ""
     /\ runs' = runs + 1 => \A k \in 1..Len(Fields) : answers'[Fields[k]] # ""]_vars

-----------------------------------------------------------------------------
(* C16, C17: createPDF *)

\* C16: hexToRgb returns (30, 41, 59) for "#1e293b", the channel values of any
\* well-formed "#rrggbb", and the fallback (30, 41, 59) for every other hex,
\* missing ones included; every channel it returns is an integer in 0..255.
C16_HexToRgbTotal ==
  primaryColor # None =>
    LET hex        == data.colorTheme
        wellFormed == /\ hex # None
                      /\ Len(hex.chars) = 7
                      /\ hex.chars[1] = "#"
                      /\ \A k \in 2..7 : DigitValue(hex.chars[k]) < 16
        pair(k)    == Num(16 * DigitValue(hex.chars[k]) + DigitValue(hex.chars[k + 1]))
    IN  /\ hex = ThemeColor => primaryColor = Rgb(Num(30), Num(41), Num(59))
        /\ IF wellFormed THEN primaryColor = Rgb(pair(2), pair(4), pair(6))
                         ELSE primaryColor = Rgb(Num(30), Num(41), Num(59))
        /\ \A ch \in {primaryColor.r, primaryColor.g, primaryColor.b} :
              "n" \in DOMAIN ch /\ ch.n \in 0..255

\* the pages that open a chapter, in document order
Openers == SelectSeq(doc, LAMBDA pg : pg.header # None /\ ~pg.header.cont)

\* C17: the document createPDF saves has the cover as page 1 and then, for
\* every chapter of the content and in the content's order, a page that opens
\* the chapter with the header number k and the chapter's title, followed only
\* by that chapter's further pages until chapter k + 1 opens.
C17_ChaptersRenderedInOrder ==
  pdfPc = "saved" =>
    /\ doc[1].kind = "cover"
    /\ \A p \in 2..Len(doc) : doc[p].kind # "cover"
    /\ Len(Openers) = Len(data.chapters)
    /\ \A k \in 1..Len(Openers) :
          /\ Openers[k].header.n = k
          /\ Openers[k].title = data.chapters[k].title
    /\ \A p \in 1..Len(doc) : \A q \in p..Len(doc) :
          (doc[p].kind = "chapter" /\ doc[q].kind = "chapter")
            => \A m \in p..q : doc[m].kind = "chapter"
    /\ \A p \in 1..Len(doc) :
          (doc[p].kind = "chapter" /\ doc[p].header # None /\ doc[p].header.cont)
            => \E q \in 1..(p - 1) :
                 /\ doc[q].header = Header(doc[p].header.n - 1, FALSE)
                 /\ \A m \in (q + 1)..p : doc[m].header # None /\ doc[m].header.cont

\* a three-page chapter after a first chapter, with its image moved to a page
\* of its own
C17_Witness ==
  /\ pdfPc = "saved"
  /\ variant = "seq"
  /\ Len(data.chapters) = 2
  /\ Len(doc) >= 5
  /\ doc[Len(doc)].lines > 0
  /\ \E p \in 1..Len(doc) : doc[p].image /\ doc[p].header = None

-----------------------------------------------------------------------------
(* C18: reset while a run is in flight (lines 660-676, 686-694, 1446-1472) *)

\* C18: when the run that was in flight at a reset settles (answers is still
\* null: no run was started since), its result is discarded: content stays
\* null, the view stays where it is (landing or wizard) and the persisted
\* record is not written.
C18_ResetDiscardsRunInFlight ==
  [][(gpc \in {"resolved", "rejected"} /\ gpc' = "idle" /\ answers = None)
       => /\ content' = None
          /\ view' = view
          /\ view' \in {"landing", "wizard"}
          /\ storage' = storage]_vars

-----------------------------------------------------------------------------
(* C19, C20: the pace of the sequential variant (lines 151-215) *)

\* a step that issues the text request of a chapter after the first
IssuesNextText == variant = "seq" /\ gpc' = "text" /\ gi' >= 1 /\ gi' = gi + 1

\* C19: in the sequential variant the text request of chapter i+1 is issued by
\* the firing of the 2000 ms timer started when chapter i was finished, however
\* chapter i ended; that timer is not started after the last chapter; and an
\* image request is issued only by the firing of its 1000 ms timer.
C19_CooldownBetweenChapters ==
  [][/\ IssuesNextText => gpc = "throttle"
     /\ (gpc' = "throttle" /\ gpc # "throttle") => gi + 1 < Len(outline.chapterTitles)
     /\ (gpc' = "image" /\ gpc # "image") => gpc = "imgCool"]_vars

\* the backend requests of the run that are outstanding, by what the run's
\* history says: the outline's, a chapter's text request, a chapter's image
\* request
RequestsOutstanding ==
  (IF gpc = "outline" THEN {"outline"} ELSE {})
  \cup { k \in DOMAIN textLog : textLog[k] = "pending" }
  \cup (IF chLog # None /\ chLog.image.st = "pending" THEN {"image"} ELSE {})

\* C20: in the sequential variant a run has at most one backend request
\* outstanding, the one callWithRetry is awaiting is that request, and while the
\* text request of chapter k is outstanding the chapter list holds the entries
\* of the chapters 1..k-1.
C20_OneRequestAtATime ==
  (variant = "seq" /\ tracked) =>
    /\ Cardinality(RequestsOutstanding) <= 1
    /\ rwPc = "awaiting" =>
          /\ Cardinality(RequestsOutstanding) = 1
          /\ gpc = "outline" => rwOp = OpName("Gerar Estrutura", 0)
          /\ gpc = "text" => rwOp = OpName("Texto Cap", gi + 1)
          /\ gpc = "image" => rwOp = OpName("Imagem Cap", gi + 1)
    /\ \A k \in DOMAIN textLog :
          textLog[k] = "pending" =>
            /\ gpc = "text"
            /\ k = gi + 1
            /\ Len(chapters) = k - 1
            /\ \A j \in 1..(k - 1) : chapters[j].title = outline.chapterTitles[j]

\* the text request of the second chapter is outstanding, the first chapter
\* having been appended with its text
C20_Witness ==
  /\ variant = "seq"
  /\ gpc = "text"
  /\ rwPc = "awaiting"
  /\ gi = 1
  /\ textLog[2] = "pending"
  /\ Len(chapters) = 1
  /\ chapters[1].content = GeneratedText

-----------------------------------------------------------------------------
(* C21: the batches of the batched variant (lines 966-1018) *)

\* the chapter requests that are outstanding
ChaptersOutstanding == { k \in DOMAIN textLog : textLog[k] = "pending" }

BatchesInStep ==
  (variant = "batch" /\ tracked /\ outline # None) =>
    /\ Cardinality(ChaptersOutstanding) <= batchSize
    /\ Len(chapters) = Min(gi, Len(outline.chapterTitles))
    /\ gi % batchSize = 0
    /\ \A k \in ChaptersOutstanding :
          /\ gpc = "batch"
          /\ k \in (gi + 1)..Min(gi + batchSize, Len(outline.chapterTitles))
          /\ k - gi \in batch.pending

MergeAfterBatch ==
  (variant = "batch" /\ gpc = "batch" /\ chapters' # chapters) =>
    /\ ChaptersOutstanding = {}
    /\ batch.pending = {}
    /\ Len(chapters') = Min(gi + batchSize, Len(outline.chapterTitles))
    /\ \A k \in ChaptersOutstanding' : k > Len(chapters')

\* C21: in the batched variant the chapter list changes only when every request
\* of the current batch has settled, the requests of the next batch are issued
\* only by that merge, at most batchSize requests are outstanding, and the list
\* has min(3 * (b + 1), n) entries after the merge of batch b.
C21_BatchesMergedInStep == [][MergeAfterBatch /\ BatchesInStep']_vars

\* the second batch is outstanding, the first merged
C21_Witness ==
  /\ variant = "batch"
  /\ gpc = "batch"
  /\ gi = batchSize
  /\ Len(chapters) = batchSize
  /\ ChaptersOutstanding # {}
  /\ \E k \in 1..batchSize : chapters[k].content = ErrorPlaceholder

-----------------------------------------------------------------------------
(* C22: the progress messages of a run (lines 93-218, 919-1021) *)

\* the step enters the chapter loop's body for the first chapter (or batch), or
\* for the one after the chapter (or batch) it was at
EntersBody(pos) == gpc' = pos /\ (gpc = "outline" \/ gi' # gi)

FinalMsgs == { Msg("Finalizando diagramação...", NoOp, 0), Msg("Finalizando formatação...", NoOp, 0) }

\* C22: the run followed step by step emits the outline message when it starts,
\* then for every chapter (sequential variant) or batch (batched variant), in
\* increasing order and none left out, the message with that chapter's number
\* and title (that batch's first and last number), then the final message, which
\* is the message shown when generateMaterial resolves; no step emits one of
\* these messages out of that order.
C22_ProgressMessagesInOrder ==
  [][/\ (gpc' = "outline" /\ gpc = "idle") => loadingMessage' = OutlineMsg
     /\ EntersBody("text") =>
           /\ gi' = (IF gpc = "outline" THEN 0 ELSE gi + 1)
           /\ loadingMessage' = Msg("Escrevendo capítulo",
                                    OpName(outline'.chapterTitles[gi' + 1], Len(outline'.chapterTitles)),
                                    gi' + 1)
     /\ EntersBody("batch") =>
           /\ gi' = (IF gpc = "outline" THEN 0 ELSE gi + batchSize)
           /\ loadingMessage' = Msg("Escrevendo capítulos",
                                    OpName("a", Min(gi' + batchSize, Len(outline'.chapterTitles))),
                                    gi' + 1)
     /\ (loadingMessage' # loadingMessage /\ loadingMessage'.m \in {"Escrevendo capítulo", "Escrevendo capítulos"})
           => (EntersBody("text") \/ EntersBody("batch"))
     /\ (gpc' = "resolved" /\ gpc # "resolved") =>
           /\ loadingMessage' \in FinalMsgs
           /\ gi' >= Len(outline'.chapterTitles)
     /\ (loadingMessage' # loadingMessage /\ loadingMessage' \in FinalMsgs)
           => (gpc' = "resolved" /\ gpc # "resolved")
     /\ (gpc = "resolved" /\ gpc' = "idle") => loadingMessage \in FinalMsgs]_vars

\* a sequential run of two chapters has resolved
C22_Witness ==
  /\ variant = "seq"
  /\ gpc = "resolved"
  /\ gi = 2
  /\ Len(chapters) = 2
  /\ loadingMessage = Msg("Finalizando diagramação...", NoOp, 0)

-----------------------------------------------------------------------------
(* C23: the outline requests of a run (lines 117-145, 940-964) *)

\* the outline step of the run followed step by step, in the sequential variant
InOutlineStep == tracked /\ variant = "seq" /\ gpc = "outline"

\* C23 as stated: the outline step issues exactly one backend request.
C23_AsClaimed == InOutlineStep => Invocations = 1

\* C23: a run makes one outline call. In the batched variant it is one request,
\* outside the retry wrapper; in the sequential variant the call goes through
\* callWithRetry and issues between 1 and DefaultRetries requests, each request
\* after the first following a rate-limit failure of the one before.
C23_OneOutlineCall ==
  /\ (tracked /\ variant = "batch") => (rwPc = "idle" /\ rwEvents = <<>>)
  /\ InOutlineStep =>
        /\ rwOp = OpName("Gerar Estrutura", 0)
        /\ Invocations \in 1..DefaultRetries
        /\ Len(Failures) \in {Invocations - 1, Invocations}
        /\ \A j \in 1..(Invocations - 1) :
              \/ Failures[j].out.err.status = 429
              \/ Failures[j].out.err.code = 429
              \/ MatchesRateLimitPattern(Failures[j].out.err.message)

\* the third outline request of a run is outstanding
C23_Witness == InOutlineStep /\ Invocations = DefaultRetries /\ rwPc = "awaiting"

-----------------------------------------------------------------------------
(* C24: the chapter bodies of a finished run (lines 205-214, 1008-1013) *)

\* C24: when generateMaterial resolves, every chapter of the Content has a body
\* that is a non-empty string, generated text or a sentinel message, whatever
\* the chapter's text request answered.
C24_EveryChapterHasBody ==
  (gpc = "resolved" /\ ret.ok) =>
    \A k \in 1..Len(ret.val.chapters) :
      /\ ret.val.chapters[k].content # Undefined
      /\ ret.val.chapters[k].content # ""
      /\ ret.val.chapters[k].content \in {GeneratedText, ErrorPlaceholder, UnavailableBody}

-----------------------------------------------------------------------------
(* C25: the paid flag (lines 324-327, 618-648, 686-694) *)

\* the `then` of the mount effect runs: verifySimulatedPayment has answered
VerifyStep == verPc = "verifying" /\ verPc' = "idle" /\ mounts' = mounts

\* C25: isPaid becomes true only in the step where verifySimulatedPayment has
\* accepted a session_id with the prefix 'demo_session_'; when the session_id
\* is any other, that step leaves isPaid false and restores nothing; a
\* confirmed reset sets isPaid to false.
C25_PaidOnlyByVerification ==
  [][/\ (isPaid' /\ ~isPaid) => (VerifyStep /\ url # None /\ url.head = "demo_session_")
     /\ (VerifyStep /\ url.head # "demo_session_")
           => /\ ~isPaid'
              /\ answers' = None
              /\ content' = None
              /\ view' # "result"
     /\ ResetStep => ~isPaid']_vars

\* paid by opening a URL with a session id of the right prefix, without a
\* checkout
C25_Witness ==
  /\ isPaid
  /\ produced = {}
  /\ verPc = "idle"
  /\ url = None
  /\ mounts >= 2

-----------------------------------------------------------------------------
(* C26: the record across the payment redirect (lines 628-646, 650-655) *)

\* C26: when checkout sends the browser away, a record that exists holds the
\* answers and the content then shown; and when verifySimulatedPayment has
\* accepted the session_id, a record that exists is restored (the view is result,
\* answers and content are the record's, the record is unchanged), and without
\* a record the view is landing and content is null.
C26_RestoreAfterPayment ==
  [][/\ (produced' # produced /\ storage # None) => storage = Stringify(answers, content)
     /\ (VerifyStep /\ url.head = "demo_session_") =>
           IF storage # None
             THEN /\ view' = "result"
                  /\ answers' = storage.answers
                  /\ content' = storage.content
                  /\ storage' = storage
             ELSE /\ view' = "landing"
                  /\ content' = None
                  /\ storage' = None]_vars

\* back from a checkout with the second set of answers and their book restored
C26_Witness ==
  /\ produced # {}
  /\ isPaid
  /\ view = "result"
  /\ verPc = "idle"
  /\ answers = Answers2
  /\ content # None
  /\ storage = Stringify(Answers2, content)
  /\ downloads # <<>>

-----------------------------------------------------------------------------
(* C27: the verification view (lines 618-648) *)

\* C27: once the page is loaded with a session_id and the verification is
\* under way, the view eventually is result or landing, whether the session_id
\* is accepted or not.
C27_LeavesVerificationView ==
  (verPc = "verifying") ~> (view \in {"result", "landing"})

-----------------------------------------------------------------------------
(* C28: the wizard's step counter (lines 453-475, 1282-1304) *)

\* C28: while the wizard is mounted its step is within 1..5 and has advanced
\* once per answered question: the questions of all the steps before it are
\* answered.
C28_StepCounterInRange ==
  wizStep # 0 =>
    /\ wizStep \in 1..5
    /\ \A k \in 1..(wizStep - 1) : wizAnswers[Fields[k]] # ""

-----------------------------------------------------------------------------
(* C29: the runs in flight (lines 467-475, 660-676, 686-694) *)

\* the generateMaterial activations that have not settled
RunsInFlight == (IF gpc \in {"idle", "resolved", "rejected"} THEN 0 ELSE 1) + others

\* C29: at most one generation run is in flight, and the content shown in the
\* result view is that of the run started with the current answers.
C29_OneRunInFlight ==
  /\ RunsInFlight <= 1
  /\ (view = "result" /\ content # None) => answers # None

-----------------------------------------------------------------------------
(* C30: termination and the number of requests (lines 62-219) *)

\* a step in which callWithRetry is called
StartsCall == rwPc' = "awaiting" /\ rwI' = 0 /\ rwPc # "awaiting" /\ rwPc # "sleeping"

RequestBudget ==
  /\ (variant = "seq" /\ gpc' \in {"outline", "text"}) => (rwRetries' = 3 /\ Invocations' <= 3)
  /\ gpc' = "image" => (rwRetries' = 1 /\ Invocations' <= 1)
  /\ (StartsCall /\ gpc' = "outline") => gpc = "idle"
  /\ (StartsCall /\ gpc' = "text") => gi' = (IF gpc = "outline" THEN 0 ELSE gi + 1)
  /\ (StartsCall /\ gpc' = "image") =>
        /\ gpc = "imgCool"
        /\ gi' = gi
        /\ textLog[gi + 1] = "fulfilled"
  /\ (gpc' = gpc /\ gi' = gi /\ gpc \in {"outline", "text", "image"}) => ~StartsCall

\* C30: a run that has started eventually resolves or rejects; in the
\* sequential variant the outline call issues at most 3 requests, each chapter
\* has one text call of at most 3 requests, and at most one image call of one
\* request, made only after the chapter's text call succeeded.
C30_RunTerminatesWithinBudget ==
  /\ (gpc = "outline") ~> (gpc \in {"resolved", "rejected"})
  /\ [][RequestBudget]_vars

\* the one image request of the second chapter is outstanding, the first
\* chapter having ended with the placeholder
C30_Witness ==
  /\ variant = "seq"
  /\ gpc = "image"
  /\ gi = 1
  /\ rwPc = "awaiting"
  /\ Invocations = 1
  /\ chapters # <<>>
  /\ chapters[1].content = ErrorPlaceholder

=============================================================================
